---- MODULE Spec2Model ----
(***************************************************************************)
(* Quest RSVP speed reader: the App shell (library, settings, localStorage *)
(* persistence) and the Reader component (cursor, play/pause, the          *)
(* self-rescheduling playback timer, position notification).               *)
(*                                                                         *)
(* Granularity: one action is one browser task -- an event handler or a    *)
(* timer callback -- together with the React render and the effects it     *)
(* causes (effect cleanups, effect bodies, the save effect of App).        *)
(* A book's content is represented by the number of tokens it splits into  *)
(* (words.current.length); the playback engine reads nothing else of it.   *)
(***************************************************************************)
EXTENDS Integers, FiniteSets, Sequences, TLC

\* ---- bounds of the exploration ----
MaxBooks == 2   \* book ids are 1..MaxBooks
MaxLen == 3     \* a book's content has 0..MaxLen tokens

\* ---- program constants ----
DefaultWpm == 350      \* DEFAULT_SETTINGS.wpm
WpmMin == 100          \* slider min
WpmMax == 1500         \* slider max
SkipStep == 10         \* the skip buttons call handleSkip(-10) and handleSkip(10)
MsPerMinute == 60000   \* numerator of the delay in scheduleNext
NoTimer == 0           \* timeoutRef.current = null
NoId == 0              \* localStorage has no POSITION_KEY entry
NoWpm == 0             \* localStorage has no SETTINGS_KEY entry

NoBook == [id |-> NoId, len |-> 0, lastPosition |-> 0]   \* activeBook = null
NoLoad == [books |-> {}, wpm |-> NoWpm, active |-> NoBook, any |-> FALSE]

BookIds == 1..MaxBooks
RateInputs == {WpmMin, DefaultWpm, WpmMax}
SkipAmounts == {-SkipStep, -1, 1, SkipStep}

Max(a, b) == IF a >= b THEN a ELSE b
Min(a, b) == IF a <= b THEN a ELSE b

VARIABLES
  storedBooks,     \* localStorage[STORAGE_KEY]: the saved library
  storedLastBook,  \* localStorage[POSITION_KEY]: id of the last active book
  storedWpm,       \* localStorage[SETTINGS_KEY].wpm
  phase,           \* "start": constructed; "loading": first effects ran; "ready"
  pendingLoad,     \* state updates queued by the load effect
  books,           \* App state: the library
  view,            \* App state: "library" or "reader"
  activeBook,      \* App state: the book object handed to Reader (a snapshot)
  wpm,             \* App state: settings.wpm
  index,           \* Reader state: the cursor
  isPlaying,       \* Reader state: running flag
  timeoutRef,      \* Reader ref: id of the last timer armed
  timers,          \* window timers armed and neither fired nor cleared
  op,              \* the task that produced this state: its name, and the
                   \* argument of skip (amount) and setRate (wpm); for close,
                   \* 1 when the session it closed was running
  showSummary,     \* Reader state: the summary dialog was asked for
  summary,         \* Reader state: the summary text
  isSummarizing,   \* Reader state: a summarize call is awaited
  explanation,     \* Reader state: the definition text (null is text "")
  calls,           \* assist calls awaited: promises not yet settled
  issued,          \* number of explainWord calls made in this session
  text,            \* tokenizer: book.content, a sequence of characters
  words,           \* tokenizer: words.current, a sequence of tokens
  word,            \* ORP: the argument of getSpritzWord
  currentSpritz,   \* ORP: the SpritzWord it returned
  cycle,           \* the render cycle of the position effect: alternates with
                   \* every run of the effect that its own setBooks caused
  isExploring,     \* Library state: the Gutenberg explorer is mounted
  opened,          \* number of explorers mounted so far; the mounted one is
                   \* the last
  downloadingId,   \* GutenbergExplorer state: id of the book being imported
  downloads        \* handleDownload calls awaited: the book, and the explorer
                   \* that made the call

vars == <<storedBooks, storedLastBook, storedWpm, phase, pendingLoad, books, view,
          activeBook, wpm, index, isPlaying, timeoutRef, timers, op>>

assistVars == <<showSummary, summary, isSummarizing, explanation, calls, issued>>
engineVars == <<text, words, word, currentSpritz>>
exploreVars == <<isExploring, opened, downloadingId, downloads>>
allVars == <<vars, assistVars, engineVars, cycle, exploreVars>>

storageVars == <<storedBooks, storedLastBook, storedWpm>>
readerVars == <<index, isPlaying, timeoutRef, timers>>

ReaderOpen == phase = "ready" /\ view = "reader" /\ activeBook # NoBook

\* words.current.length of the mounted Reader
Length == activeBook.len

Op(name, arg) == [name |-> name, arg |-> arg]

\* ---- timers ----

\* window.clearTimeout(timeoutRef.current), guarded by `if (timeoutRef.current)`
ClearTimeout(tm, ref) == IF ref # NoTimer THEN {t \in tm : t.id # ref} ELSE tm

\* window.setTimeout returns an id no live timer has; ids are never reused, so
\* the id differs from the one timeoutRef still holds
FreshTimer(tm, ref) ==
  CHOOSE i \in 1..(Cardinality(tm) + 2) : i # ref /\ \A t \in tm : t.id # i

\* mutant: the delay is always that of the default rate
ScheduleNextDefaultRate(tm, ref, w) ==
  LET id == FreshTimer(tm, ref)
  IN [timers |-> tm \cup {[id |-> id, wpm |-> w, delay |-> MsPerMinute \div DefaultWpm]},
      ref |-> id]

\* scheduleNext: arm one timer with the delay of the closure's settings.wpm
ScheduleNext(tm, ref, w) ==
  LET id == FreshTimer(tm, ref)
  IN [timers |-> tm \cup {[id |-> id, wpm |-> w, delay |-> MsPerMinute \div w]},
      ref |-> id]

\* mutant: the cleanup of the previous run is missing
PlaybackEffectNoCleanup(changed, playing, w, tm, ref) ==
  IF ~changed THEN [timers |-> tm, ref |-> ref]
  ELSE IF playing THEN ScheduleNext(tm, ref, w)
       ELSE [timers |-> ClearTimeout(tm, ref), ref |-> ref]

\* mutant: pausing cancels nothing
PlaybackEffectNoCancel(changed, playing, w, tm, ref) ==
  IF changed /\ playing THEN ScheduleNext(ClearTimeout(tm, ref), ref, w)
  ELSE [timers |-> tm, ref |-> ref]

\* the playback effect on a render where its dependencies [isPlaying,
\* settings.wpm] changed: cleanup of the previous run, then the body
PlaybackEffect(changed, playing, w, tm, ref) ==
  IF ~changed THEN [timers |-> tm, ref |-> ref]
  ELSE LET cleaned == ClearTimeout(tm, ref)
       IN IF playing THEN ScheduleNext(cleaned, ref, w)
          ELSE [timers |-> ClearTimeout(cleaned, ref), ref |-> ref]

\* ---- App helpers ----

\* mutant: the id is not compared
UpdateBookPositionAll(bks, id, pos) ==
  {[b EXCEPT !.lastPosition = pos] : b \in bks}

\* updateBookPosition: prev.map(b => b.id === id ? {...b, lastPosition: pos} : b)
UpdateBookPosition(bks, id, pos) ==
  {IF b.id = id THEN [b EXCEPT !.lastPosition = pos] ELSE b : b \in bks}

\* the save effect of App, run after a render in which books, activeBook or
\* settings changed
SaveEffect(bks, act, w) ==
  /\ storedBooks' = bks
  /\ storedWpm' = w
  /\ storedLastBook' = IF act # NoBook THEN act.id ELSE storedLastBook

\* useState(book.lastPosition || 0)
InitialIndex(book) == IF book.lastPosition = 0 THEN 0 ELSE book.lastPosition

\* Reader mounts on `book`: initial state, then its effects (the playback effect
\* finds isPlaying false; the position effect reports the initial index)
MountReader(book) ==
  /\ index' = InitialIndex(book)
  /\ isPlaying' = FALSE
  /\ timeoutRef' = NoTimer
  /\ timers' = ClearTimeout(timers, NoTimer)
  /\ books' = UpdateBookPosition(books, book.id, InitialIndex(book))
  /\ SaveEffect(books', book, wpm)

\* explanation = null
NoExplanation == [text |-> "", req |-> 0]

\* the SpritzWord of the empty word
NoSpritz == [prefix |-> <<>>, orp |-> <<>>, suffix |-> <<>>]

\* Reader state of the assist dialog as constructed, no call awaited
AssistIdle ==
  /\ showSummary = FALSE
  /\ summary = ""
  /\ isSummarizing = FALSE
  /\ explanation = NoExplanation
  /\ calls = {}
  /\ issued = 0

\* no text and no word under study
EngineIdle ==
  /\ text = <<>>
  /\ words = <<>>
  /\ word = <<>>
  /\ currentSpritz = NoSpritz

NoDownload == 0        \* downloadingId = null

\* no explorer mounted, no download awaited
ExploreIdle ==
  /\ isExploring = FALSE
  /\ opened = 0
  /\ downloadingId = NoDownload
  /\ downloads = {}

\* ---- initial state: a fresh install, App constructed, nothing rendered ----
Init ==
  /\ AssistIdle
  /\ EngineIdle
  /\ ExploreIdle
  /\ cycle = FALSE
  /\ storedBooks = {}
  /\ storedLastBook = NoId
  /\ storedWpm = NoWpm
  /\ phase = "start"
  /\ pendingLoad = NoLoad
  /\ books = {}
  /\ view = "library"
  /\ activeBook = NoBook
  /\ wpm = DefaultWpm
  /\ index = 0
  /\ isPlaying = FALSE
  /\ timeoutRef = NoTimer
  /\ timers = {}
  /\ op = Op("init", 0)

\* ---- App start-up ----

\* effects of the first render: the load effect reads localStorage and queues
\* setBooks / setSettings / setActiveBook; the save effect then writes the
\* state of the first render
Mount ==
  /\ phase = "start"
  /\ pendingLoad' =
       [books |-> storedBooks,
        wpm |-> IF storedWpm # NoWpm THEN storedWpm ELSE wpm,
        active |-> IF storedLastBook # NoId /\ \E b \in storedBooks : b.id = storedLastBook
                   THEN CHOOSE b \in storedBooks : b.id = storedLastBook
                   ELSE NoBook,
        any |-> TRUE]
  /\ SaveEffect(books, activeBook, wpm)
  /\ phase' = "loading"
  /\ op' = Op("mount", 0)
  /\ UNCHANGED <<books, view, activeBook, wpm, readerVars>>

\* the render of the queued updates, and the save effect after it
CommitLoad ==
  /\ phase = "loading"
  /\ books' = pendingLoad.books
  /\ wpm' = pendingLoad.wpm
  /\ activeBook' = pendingLoad.active
  /\ SaveEffect(books', activeBook', wpm')
  /\ pendingLoad' = NoLoad
  /\ phase' = "ready"
  /\ op' = Op("load", 0)
  /\ UNCHANGED <<view, readerVars>>

\* the page is reloaded or the app relaunched: memory is lost, storage stays
Restart ==
  /\ phase = "ready"
  /\ phase' = "start"
  /\ pendingLoad' = NoLoad
  /\ books' = {}
  /\ view' = "library"
  /\ activeBook' = NoBook
  /\ wpm' = DefaultWpm
  /\ index' = 0
  /\ isPlaying' = FALSE
  /\ timeoutRef' = NoTimer
  /\ timers' = {}
  /\ op' = Op("restart", 0)
  /\ UNCHANGED storageVars

\* ---- App handlers ----

\* ids that no book of the library has and POSITION_KEY does not name
UnusedIds == {i \in BookIds : i # storedLastBook /\ \A b \in books : b.id # i}

\* Math.random().toString(36).substr(2, 9): a new id, never one used before.
\* Ids are only ever compared for equality, so the least unused one stands
\* for it.
NewId == CHOOSE i \in UnusedIds : \A j \in UnusedIds : i <= j

\* handleAddBook: a new book with a new id and lastPosition 0 is put in the
\* library; the content has `len` tokens
handleAddBook(len) ==
  /\ phase = "ready"
  /\ UnusedIds # {}
  /\ books' = books \cup {[id |-> NewId, len |-> len, lastPosition |-> 0]}
  /\ SaveEffect(books', activeBook, wpm)
  /\ op' = Op("add", 0)
  /\ UNCHANGED <<phase, pendingLoad, view, activeBook, wpm, readerVars>>

\* handleDeleteBook, reached from the Library view
handleDeleteBook(id) ==
  /\ phase = "ready"
  /\ view = "library"
  /\ \E b \in books : b.id = id
  /\ books' = {b \in books : b.id # id}
  /\ activeBook' = IF activeBook.id = id THEN NoBook ELSE activeBook
  /\ SaveEffect(books', activeBook', wpm)
  /\ op' = Op("delete", 0)
  /\ UNCHANGED <<phase, pendingLoad, view, wpm, readerVars>>

\* handleSelectBook(book): the Library passes the book object of `books`
handleSelectBook(book) ==
  /\ phase = "ready"
  /\ view = "library"
  /\ book \in books
  /\ activeBook' = book
  /\ view' = "reader"
  /\ MountReader(book)
  /\ op' = Op("select", 0)
  /\ UNCHANGED <<phase, pendingLoad, wpm>>

\* the Resume Reading button: setView('reader'); Reader mounts on activeBook
ResumeReading ==
  /\ phase = "ready"
  /\ view = "library"
  /\ activeBook # NoBook
  /\ view' = "reader"
  /\ MountReader(activeBook)
  /\ op' = Op("resume", 0)
  /\ UNCHANGED <<phase, pendingLoad, activeBook, wpm>>

\* mutant: unmounting runs no cleanup
CloseReaderNoCleanup ==
  /\ ReaderOpen
  /\ view' = "library"
  /\ timers' = timers
  /\ index' = 0
  /\ isPlaying' = FALSE
  /\ timeoutRef' = NoTimer
  /\ op' = Op("close", IF isPlaying THEN 1 ELSE 0)
  /\ UNCHANGED <<storageVars, phase, pendingLoad, books, activeBook, wpm>>

\* onClose / the Library button: setView('library'); Reader unmounts and the
\* cleanup of its playback effect runs
CloseReader ==
  /\ ReaderOpen
  /\ view' = "library"
  /\ timers' = ClearTimeout(timers, timeoutRef)
  /\ index' = 0
  /\ isPlaying' = FALSE
  /\ timeoutRef' = NoTimer
  /\ op' = Op("close", IF isPlaying THEN 1 ELSE 0)
  /\ UNCHANGED <<storageVars, phase, pendingLoad, books, activeBook, wpm>>

\* ---- Reader render ----

\* the progress bar: index / (words.current.length - 1)
BarDenominator == Length - 1

\* the percentage: index / words.current.length
PercentDenominator == Length

\* ---- Reader handlers ----

\* mutant: the position effect never calls onUpdatePosition
PositionEffectSilent(changed, i) == UNCHANGED <<books, storageVars>>

\* the position effect after a render in which the index changed (or the
\* onUpdatePosition prop did), and the save effect of App it leads to
PositionEffect(changed, i) ==
  IF changed
  THEN /\ books' = UpdateBookPosition(books, activeBook.id, i)
       /\ SaveEffect(books', activeBook, wpm')
  ELSE UNCHANGED <<books, storageVars>>

\* mutant: the handler only ever starts playback
handleTogglePlayStarts ==
  /\ ReaderOpen
  /\ isPlaying' = TRUE
  /\ LET e == PlaybackEffect(~isPlaying, isPlaying', wpm, timers, timeoutRef)
     IN timers' = e.timers /\ timeoutRef' = e.ref
  /\ op' = Op("togglePlay", 0)
  /\ UNCHANGED <<storageVars, phase, pendingLoad, books, view, activeBook, wpm, index>>

\* handleTogglePlay: setIsPlaying(!isPlaying)
handleTogglePlay ==
  /\ ReaderOpen
  /\ isPlaying' = ~isPlaying
  /\ LET e == PlaybackEffect(TRUE, isPlaying', wpm, timers, timeoutRef)
     IN timers' = e.timers /\ timeoutRef' = e.ref
  /\ op' = Op("togglePlay", 0)
  /\ UNCHANGED <<storageVars, phase, pendingLoad, books, view, activeBook, wpm, index>>

\* mutants: one side of the clamp is missing
SkipTargetNoLower(i, len, amount) == Min(len - 1, i + amount)
SkipTargetNoUpper(i, len, amount) == Max(0, i + amount)

\* handleSkip: Math.max(0, Math.min(words.current.length - 1, index + amount))
SkipTarget(i, len, amount) == Max(0, Min(len - 1, i + amount))

\* mutant: index is a dependency of the playback effect
handleSkipRearms(amount) ==
  /\ ReaderOpen
  /\ index' = SkipTarget(index, Length, amount)
  /\ wpm' = wpm
  /\ LET e == PlaybackEffect(index' # index, isPlaying, wpm, timers, timeoutRef)
     IN timers' = e.timers /\ timeoutRef' = e.ref
  /\ PositionEffect(index' # index, index')
  /\ op' = Op("skip", amount)
  /\ UNCHANGED <<phase, pendingLoad, view, activeBook, isPlaying>>

handleSkip(amount) ==
  /\ ReaderOpen
  /\ index' = SkipTarget(index, Length, amount)
  /\ wpm' = wpm
  /\ PositionEffect(index' # index, index')
  /\ op' = Op("skip", amount)
  /\ UNCHANGED <<phase, pendingLoad, view, activeBook, isPlaying, timeoutRef, timers>>

\* mutant: reset leaves the running flag alone
ResetStateKeepsPlaying(i, p) == [index |-> 0, isPlaying |-> p]

\* the state handleReset sets, whatever the index i and the flag p were
ResetState(i, p) == [index |-> 0, isPlaying |-> FALSE]

\* handleReset: setIndex(0); setIsPlaying(false)
handleReset ==
  /\ ReaderOpen
  /\ index' = ResetState(index, isPlaying).index
  /\ isPlaying' = ResetState(index, isPlaying).isPlaying
  /\ LET e == PlaybackEffect(isPlaying' # isPlaying, isPlaying', wpm, timers, timeoutRef)
     IN timers' = e.timers /\ timeoutRef' = e.ref
  /\ wpm' = wpm
  /\ PositionEffect(index' # index, index')
  /\ op' = Op("reset", 0)
  /\ UNCHANGED <<phase, pendingLoad, view, activeBook>>

\* mutant: the end test is off by one
TickStopsLate(prev, len) == prev >= len

\* the state updater of the timer callback: prev >= words.current.length - 1
TickStops(prev, len) == prev >= len - 1

\* mutant: the updater never advances
TickIndexStuck(prev, len) == prev

\* mutant: the updater advances two tokens
TickIndexTwo(prev, len) == IF TickStops(prev, len) THEN prev ELSE prev + 2

TickIndex(prev, len) == IF TickStops(prev, len) THEN prev ELSE prev + 1

\* the callback scheduleNext armed: setIndex(updater), then scheduleNext() of
\* the same closure, then the render of the new state and its effects
Tick(t) ==
  /\ ReaderOpen
  /\ t \in timers
  /\ index' = TickIndex(index, Length)
  /\ isPlaying' = IF TickStops(index, Length) THEN FALSE ELSE isPlaying
  /\ LET armed == ScheduleNext(timers \ {t}, timeoutRef, t.wpm)
         e == PlaybackEffect(isPlaying' # isPlaying, isPlaying', wpm,
                             armed.timers, armed.ref)
     IN timers' = e.timers /\ timeoutRef' = e.ref
  /\ wpm' = wpm
  /\ PositionEffect(index' # index, index')
  /\ op' = Op("tick", 0)
  /\ UNCHANGED <<phase, pendingLoad, view, activeBook>>

\* mutant: settings.wpm is not a dependency of the playback effect
setRateNoRearm(w) ==
  /\ ReaderOpen
  /\ wpm' = w
  /\ UNCHANGED <<timers, timeoutRef>>
  /\ PositionEffect(TRUE, index)
  /\ op' = Op("setRate", w)
  /\ UNCHANGED <<phase, pendingLoad, view, activeBook, index, isPlaying>>

\* the WPM slider: onUpdateSettings({ wpm }) -> updateSettings merges it into
\* settings; App and Reader render again
setRate(w) ==
  /\ ReaderOpen
  /\ wpm' = w
  /\ LET e == PlaybackEffect(w # wpm, isPlaying, w, timers, timeoutRef)
     IN timers' = e.timers /\ timeoutRef' = e.ref
  /\ PositionEffect(TRUE, index)
  /\ op' = Op("setRate", w)
  /\ UNCHANGED <<phase, pendingLoad, view, activeBook, index, isPlaying>>

\* mutant: onUpdatePosition is a dependency of the playback effect as well
RenotifyRearms ==
  /\ ReaderOpen
  /\ wpm' = wpm
  /\ PositionEffect(TRUE, index)
  /\ LET e == PlaybackEffect(TRUE, isPlaying, wpm, timers, timeoutRef)
     IN timers' = e.timers /\ timeoutRef' = e.ref
  /\ op' = Op("notify", 0)
  /\ UNCHANGED <<phase, pendingLoad, view, activeBook, index, isPlaying>>

\* every render of App hands Reader a new updateBookPosition function, so the
\* position effect runs again after the render its own setBooks caused
Renotify ==
  /\ ReaderOpen
  /\ wpm' = wpm
  /\ PositionEffect(TRUE, index)
  /\ op' = Op("notify", 0)
  /\ UNCHANGED <<phase, pendingLoad, view, activeBook, readerVars>>

\* the library, the playback engine and persistence; the assist dialog is
\* left idle
Idle == UNCHANGED <<assistVars, engineVars, cycle, exploreVars>>

Next ==
  \/ Mount /\ Idle
  \/ CommitLoad /\ Idle
  \/ Restart /\ Idle
  \/ \E len \in 0..MaxLen : handleAddBook(len) /\ Idle
  \/ \E id \in BookIds : handleDeleteBook(id) /\ Idle
  \/ \E book \in books : handleSelectBook(book) /\ Idle
  \/ ResumeReading /\ Idle
  \/ CloseReader /\ Idle
  \/ handleTogglePlay /\ Idle
  \/ \E amount \in SkipAmounts : handleSkip(amount) /\ Idle
  \/ handleReset /\ Idle
  \/ \E t \in timers : Tick(t) /\ Idle
  \/ \E w \in RateInputs : setRate(w) /\ Idle
  \/ Renotify /\ Idle

Spec == Init /\ [][Next]_allVars

\* ---- updateSettings and the load effect on any rate ----

\* rates the slider cannot produce: updateSettings and the load effect take
\* whatever number they are handed
OutOfRangeRates == {WpmMin - 1, WpmMax + 1}

NextAnyRate ==
  \/ Next
  \/ \E w \in OutOfRangeRates : setRate(w) /\ Idle

SpecAnyRate == Init /\ [][NextAnyRate]_allVars

\* ---- the assist dialog: handleSummarize, handleExplain ----

MaxCalls == 2   \* explainWord is called at most MaxCalls times in a session

\* what a generateContent call can end in: a text, no text (response.text
\* undefined or empty), an error thrown
Outcomes == {"Text", "Nothing", "Failed"}

\* summarizePassage: response.text, or the string its catch returns
summarizePassage(outcome) ==
  IF outcome = "Text" THEN "A summary."
  ELSE IF outcome = "Nothing" THEN ""
  ELSE "Could not generate summary at this time."

\* explainWord: response.text, or the string its catch returns
explainWord(outcome) ==
  IF outcome = "Text" THEN "A definition."
  ELSE IF outcome = "Nothing" THEN ""
  ELSE "Could not explain word."

\* mutant: no fallback for a missing result
OrElseNothing(result, fallback) == result

\* result || fallback
OrElse(result, fallback) == IF result = "" THEN fallback ELSE result

\* the modal is rendered: showSummary || explanation
DialogOpen == showSummary \/ explanation.text # ""

\* what the modal shows: explanation || (isSummarizing ? "Processing..." : summary)
DialogText ==
  IF explanation.text # "" THEN explanation.text
  ELSE IF isSummarizing THEN "Processing..." ELSE summary

\* mutant: starting or finishing a call rewinds the cursor
AssistFrameRewinds ==
  /\ index' = 0
  /\ UNCHANGED <<storageVars, phase, pendingLoad, books, view, activeBook, wpm,
                 isPlaying, timeoutRef, timers, engineVars, cycle, exploreVars>>

\* handleSummarize, handleExplain and the modal's buttons set none of index,
\* isPlaying, settings or the timer, and call none of App's handlers
AssistFrame ==
  UNCHANGED <<storageVars, phase, pendingLoad, books, view, activeBook, wpm,
              index, isPlaying, timeoutRef, timers, engineVars, cycle, exploreVars>>

\* handleSummarize up to its await (it returns at once while isSummarizing)
handleSummarize ==
  /\ ReaderOpen
  /\ ~isSummarizing
  /\ isSummarizing' = TRUE
  /\ showSummary' = TRUE
  /\ calls' = calls \cup {[kind |-> "summarize", req |-> 0]}
  /\ op' = Op("summarize", 0)
  /\ AssistFrame
  /\ UNCHANGED <<summary, explanation, issued>>

\* the rest of handleSummarize, when summarizePassage settles
SummaryResult(c, outcome) ==
  /\ ReaderOpen
  /\ c \in calls
  /\ c.kind = "summarize"
  /\ calls' = calls \ {c}
  /\ summary' = OrElse(summarizePassage(outcome), "No summary available.")
  /\ isSummarizing' = FALSE
  /\ op' = Op("summary" \o outcome, 0)
  /\ AssistFrame
  /\ UNCHANGED <<showSummary, explanation, issued>>

\* handleExplain up to its await; req numbers the calls in the order made
handleExplain ==
  /\ ReaderOpen
  /\ issued < MaxCalls
  /\ explanation' = [text |-> "Thinking...", req |-> 0]
  /\ issued' = issued + 1
  /\ calls' = calls \cup {[kind |-> "explain", req |-> issued']}
  /\ op' = Op("explain", issued')
  /\ AssistFrame
  /\ UNCHANGED <<showSummary, summary, isSummarizing>>

\* the rest of handleExplain, when explainWord settles; the text is tagged
\* with the call it answers
ExplainResult(c, outcome) ==
  /\ ReaderOpen
  /\ c \in calls
  /\ c.kind = "explain"
  /\ calls' = calls \ {c}
  /\ explanation' = [text |-> OrElse(explainWord(outcome), "Could not define word."),
                     req |-> c.req]
  /\ op' = Op("explain" \o outcome, c.req)
  /\ AssistFrame
  /\ UNCHANGED <<showSummary, summary, isSummarizing, issued>>

\* the backdrop or Back to Reader: setShowSummary(false); setExplanation(null)
Dismiss ==
  /\ ReaderOpen
  /\ DialogOpen
  /\ showSummary' = FALSE
  /\ explanation' = NoExplanation
  /\ op' = Op("dismiss", 0)
  /\ AssistFrame
  /\ UNCHANGED <<summary, isSummarizing, calls, issued>>

\* a Reader just opened from the library on the only book, of any length
InitAssist ==
  /\ \E len \in 0..MaxLen :
       /\ books = {[id |-> 1, len |-> len, lastPosition |-> 0]}
       /\ activeBook = [id |-> 1, len |-> len, lastPosition |-> 0]
  /\ storedBooks = books
  /\ storedLastBook = 1
  /\ storedWpm = DefaultWpm
  /\ phase = "ready"
  /\ pendingLoad = NoLoad
  /\ view = "reader"
  /\ wpm = DefaultWpm
  /\ index = 0
  /\ isPlaying = FALSE
  /\ timeoutRef = NoTimer
  /\ timers = {}
  /\ op = Op("select", 0)
  /\ AssistIdle
  /\ EngineIdle
  /\ ExploreIdle
  /\ cycle = FALSE

NextAssist ==
  \/ handleTogglePlay /\ Idle
  \/ \E amount \in SkipAmounts : handleSkip(amount) /\ Idle
  \/ handleReset /\ Idle
  \/ \E t \in timers : Tick(t) /\ Idle
  \/ handleSummarize
  \/ \E c \in calls, outcome \in Outcomes : SummaryResult(c, outcome)
  \/ handleExplain
  \/ \E c \in calls, outcome \in Outcomes : ExplainResult(c, outcome)
  \/ Dismiss

SpecAssist == InitAssist /\ [][NextAssist]_allVars

\* ---- one reading session, with the render cycle made visible ----

\* the position effect runs because the render gave it a new onUpdatePosition
\* (App creates updateBookPosition anew on every render); its setBooks makes
\* App render again
NotifyStep ==
  /\ Renotify
  /\ cycle' = ~cycle
  /\ UNCHANGED <<assistVars, engineVars, exploreVars>>

\* the timer callback of an armed tick runs
TickStep == \E t \in timers : Tick(t) /\ Idle

\* a step of the user: play/pause, skip, reset, the rate slider
UserStep ==
  \/ handleTogglePlay /\ Idle
  \/ \E amount \in SkipAmounts : handleSkip(amount) /\ Idle
  \/ handleReset /\ Idle
  \/ \E w \in RateInputs : setRate(w) /\ Idle

NextSession ==
  \/ UserStep
  \/ TickStep
  \/ NotifyStep

\* the browser runs the callback of an armed timer, and React runs an effect
\* whose dependencies changed
SpecSession ==
  /\ InitAssist
  /\ [][NextSession]_allVars
  /\ WF_allVars(TickStep)
  /\ WF_allVars(NotifyStep)

\* ---- the Gutenberg explorer: handleDownload ----

MaxRemote == 2   \* the search results are the books 1..MaxRemote
MaxOpens == 3    \* the explorer is opened at most MaxOpens times

RemoteIds == 1..MaxRemote

\* everything outside the explorer that its own handlers leave alone
ExploreFrame ==
  UNCHANGED <<storageVars, phase, pendingLoad, books, view, activeBook, wpm,
              readerVars, assistVars, engineVars, cycle>>

\* the Discover button of the Library: setIsExploring(true); a new
\* GutenbergExplorer mounts with downloadingId null
OpenExplorer ==
  /\ phase = "ready"
  /\ view = "library"
  /\ ~isExploring
  /\ opened < MaxOpens
  /\ isExploring' = TRUE
  /\ opened' = opened + 1
  /\ downloadingId' = NoDownload
  /\ op' = Op("explore", 0)
  /\ ExploreFrame
  /\ UNCHANGED downloads

\* the X button: onClose is setIsExploring(false); the explorer unmounts, the
\* calls it awaits go on
CloseExplorer ==
  /\ isExploring
  /\ isExploring' = FALSE
  /\ downloadingId' = NoDownload
  /\ op' = Op("closeExplorer", 0)
  /\ ExploreFrame
  /\ UNCHANGED <<opened, downloads>>

\* Import on book g, enabled while downloadingId is null: handleDownload up
\* to its first await
handleDownload(g) ==
  /\ isExploring
  /\ downloadingId = NoDownload
  /\ downloadingId' = g
  /\ downloads' = downloads \cup {[book |-> g, inst |-> opened]}
  /\ op' = Op("download", g)
  /\ ExploreFrame
  /\ UNCHANGED <<isExploring, opened>>

\* Import on a book with neither an EPUB nor a text format: alert, return,
\* and the finally block sets downloadingId back to null in the same task
handleDownloadNoFormat(g) ==
  /\ isExploring
  /\ downloadingId = NoDownload
  /\ downloadingId' = NoDownload
  /\ op' = Op("noFormat", g)
  /\ ExploreFrame
  /\ UNCHANGED <<isExploring, opened, downloads>>

\* the rest of handleDownload when fetch and extraction succeed with a text
\* of `len` tokens: onAddBook, onClose, and setDownloadingId(null)
DownloadAdded(d, len) ==
  /\ d \in downloads
  /\ handleAddBook(len)
  /\ isExploring' = FALSE
  /\ downloadingId' = NoDownload
  /\ downloads' = downloads \ {d}
  /\ UNCHANGED <<opened, assistVars, engineVars, cycle>>

\* the rest of handleDownload when fetch, the HTTP status or
\* extractTextFromEpub throws: alert, then setDownloadingId(null), which only
\* reaches the explorer that made the call if it is still mounted
DownloadFailed(d) ==
  /\ d \in downloads
  /\ downloads' = downloads \ {d}
  /\ downloadingId' =
       IF isExploring /\ d.inst = opened THEN NoDownload ELSE downloadingId
  /\ op' = Op("downloadFailed", d.inst)
  /\ ExploreFrame
  /\ UNCHANGED <<isExploring, opened>>

NextExplore ==
  \/ Mount /\ Idle
  \/ CommitLoad /\ Idle
  \/ OpenExplorer
  \/ CloseExplorer
  \/ \E g \in RemoteIds : handleDownload(g)
  \/ \E g \in RemoteIds : handleDownloadNoFormat(g)
  \/ \E d \in downloads, len \in 0..MaxLen : DownloadAdded(d, len)
  \/ \E d \in downloads : DownloadFailed(d)
  \/ \E id \in BookIds : ~isExploring /\ handleDeleteBook(id) /\ Idle

SpecExplore == Init /\ [][NextExplore]_allVars

\* ---- the ORP calculator: getSpritzWord ----

MaxWordLen == 15   \* words of up to MaxWordLen characters are studied
Letters == {"a", "b"}

\* String.prototype.substring(a, b) on a sequence of characters: both indexes
\* are clamped to 0..length and swapped when a > b
Substring(s, a, b) ==
  LET ca == Max(0, Min(a, Len(s)))
      cb == Max(0, Min(b, Len(s)))
  IN SubSeq(s, Min(ca, cb) + 1, Max(ca, cb))

\* String.prototype.charAt(i): the character at i, "" when i is out of range
CharAt(s, i) == IF 0 <= i /\ i < Len(s) THEN <<s[i + 1]>> ELSE <<>>

\* mutant: the band 2..5 ends one character late
OrpIndexLateBand(len) ==
  IF len = 1 THEN 0
  ELSE IF len >= 2 /\ len <= 6 THEN 1
  ELSE IF len >= 7 /\ len <= 9 THEN 2
  ELSE IF len >= 10 /\ len <= 13 THEN 3
  ELSE 4

\* the if-chain of getSpritzWord that picks orpIndex from word.length
OrpIndex(len) ==
  IF len = 1 THEN 0
  ELSE IF len >= 2 /\ len <= 5 THEN 1
  ELSE IF len >= 6 /\ len <= 9 THEN 2
  ELSE IF len >= 10 /\ len <= 13 THEN 3
  ELSE 4

\* mutant: the suffix starts at the pivot
getSpritzWordSuffixAtPivot(w) ==
  IF w = <<>> THEN NoSpritz
  ELSE [prefix |-> Substring(w, 0, OrpIndex(Len(w))),
        orp |-> CharAt(w, OrpIndex(Len(w))),
        suffix |-> Substring(w, OrpIndex(Len(w)), Len(w))]

\* getSpritzWord: `!word` holds of the empty string and of undefined, both
\* the empty sequence here
getSpritzWord(w) ==
  IF w = <<>> THEN NoSpritz
  ELSE [prefix |-> Substring(w, 0, OrpIndex(Len(w))),
        orp |-> CharAt(w, OrpIndex(Len(w))),
        suffix |-> Substring(w, OrpIndex(Len(w)) + 1, Len(w))]

\* the word shown grows by one letter and the render computes
\* currentSpritz = getSpritzWord(word)
ShowWord(c) ==
  /\ Len(word) < MaxWordLen
  /\ word' = Append(word, c)
  /\ currentSpritz' = getSpritzWord(word')
  /\ UNCHANGED <<vars, assistVars, text, words, cycle, exploreVars>>

NextOrp == \E c \in Letters : ShowWord(c)

SpecOrp == Init /\ [][NextOrp]_allVars

\* ---- the tokenizer: book.content.split(/\s+/).filter(w => w.length > 0) ----

MaxTextLen == 6   \* contents of up to MaxTextLen characters are studied
Whitespace == {" ", "\n"}
TextChars == Letters \cup Whitespace

\* the index of the first character at or after i that is not whitespace
\* (Len(t) + 1 when there is none): the end of a match of /\s+/
RECURSIVE SkipRun(_, _)
SkipRun(t, i) ==
  IF i > Len(t) \/ t[i] \notin Whitespace THEN i ELSE SkipRun(t, i + 1)

\* String.prototype.split(/\s+/) from index i with the piece `cur` begun: every
\* match of the separator ends a piece, be it empty; the rest is the last
\* piece
RECURSIVE SplitFrom(_, _, _)
SplitFrom(t, i, cur) ==
  IF i > Len(t) THEN <<cur>>
  ELSE IF t[i] \in Whitespace THEN <<cur>> \o SplitFrom(t, SkipRun(t, i), <<>>)
  ELSE SplitFrom(t, i + 1, Append(cur, t[i]))

NonEmpty(w) == Len(w) > 0

\* mutant: the filter is missing
TokenizeNoFilter(t) == SplitFrom(t, 1, <<>>)

\* useRef(book.content.split(/\s+/).filter(w => w.length > 0))
Tokenize(t) == SelectSeq(SplitFrom(t, 1, <<>>), NonEmpty)

\* the content grows by one character and is tokenized
TypeChar(c) ==
  /\ Len(text) < MaxTextLen
  /\ text' = Append(text, c)
  /\ words' = Tokenize(text')
  /\ UNCHANGED <<vars, assistVars, word, currentSpritz, cycle, exploreVars>>

NextTokenize == \E c \in TextChars : TypeChar(c)

SpecTokenize == Init /\ [][NextTokenize]_allVars

\* ======================= properties =======================

\* clamp(x, lo, hi) for lo <= hi: the point of [lo, hi] nearest to x
Clamp(x, lo, hi) == IF x < lo THEN lo ELSE IF x > hi THEN hi ELSE x

\* the position localStorage holds for book `id` (0 when it holds none)
StoredPosition(id) ==
  IF \E b \in storedBooks : b.id = id
  THEN (CHOOSE b \in storedBooks : b.id = id).lastPosition
  ELSE 0

\* C1: with a document of at least one token open, the cursor is always within
\* 0 .. length - 1, whatever sequence of togglePlay, tick, skip, reset and
\* setRate led to the state.
C1_CursorInRange ==
  (ReaderOpen /\ Length >= 1) => (0 <= index /\ index <= Length - 1)

\* a skip forward by the button's step has acted while Running and the cursor
\* sits on the last token of a longest document
C1_Witness ==
  /\ ReaderOpen
  /\ Length = MaxLen
  /\ op = Op("skip", SkipStep)
  /\ isPlaying
  /\ index = Length - 1

\* C2: the step of togglePlay that pauses, and every reset, leaves no armed
\* tick behind, and a tick only ever fires from a Running state: no tick
\* armed before a pause or reset changes the cursor after it.
C2_NoTickAfterPause ==
  [][ /\ (op'.name \in {"togglePlay", "reset"} /\ ~isPlaying') => timers' = {}
      /\ op'.name = "tick" => isPlaying ]_vars

\* togglePlay has paused a session whose timer had been armed (timeoutRef
\* still holds its id) before the cursor reached the end
C2_Witness ==
  /\ ReaderOpen
  /\ op.name = "togglePlay"
  /\ ~isPlaying
  /\ timeoutRef # NoTimer
  /\ timers = {}
  /\ index < Length - 1

\* C3: a tick that fires with cursor >= length - 1 pauses playback and leaves
\* the cursor where it is (no wrap to 0, no step past the last token).
C3_TickStopsAtEnd ==
  [][ (op'.name = "tick" /\ index >= Length - 1)
        => (~isPlaying' /\ index' = index) ]_vars

\* a tick has fired on the last token of a document of several tokens and
\* paused playback there
C3_Witness ==
  /\ ReaderOpen
  /\ op.name = "tick"
  /\ Length >= 2
  /\ index = Length - 1
  /\ ~isPlaying

\* C4: a tick that fires with cursor < length - 1 advances the cursor by
\* exactly one, stays Running and leaves one newly armed tick pending.
C4_TickAdvances ==
  [][ (op'.name = "tick" /\ index < Length - 1)
        => /\ index' = index + 1
           /\ isPlaying'
           /\ timers' # {}
           /\ timers' \cap timers = {}
           /\ \A t \in timers' : t.id = timeoutRef' ]_vars

\* a tick has advanced the cursor to the middle of a document and playback
\* goes on with a tick pending
C4_Witness ==
  /\ ReaderOpen
  /\ op.name = "tick"
  /\ isPlaying
  /\ index = 1
  /\ Length = MaxLen
  /\ timers # {}

\* C5: at most one armed tick exists in every reachable state.
C5_AtMostOnePending == Cardinality(timers) <= 1

\* the rate was set while Running on a non-default rate and one tick is
\* pending, armed with the interval of that rate
C5_Witness ==
  /\ ReaderOpen
  /\ op = Op("setRate", WpmMax)
  /\ isPlaying
  /\ Cardinality(timers) = 1
  /\ \A t \in timers : t.delay = MsPerMinute \div WpmMax

\* C6 (as claimed): every step that opens a session (selecting a book in the
\* library, Resume Reading) yields a Paused reader whose cursor is the
\* position stored for that book before the step, clamped to the document.
C6_OpensAtPersisted ==
  [][ op'.name \in {"select", "resume"}
        => /\ ~isPlaying'
           /\ index' = IF activeBook'.len = 0 THEN 0
                       ELSE Clamp(StoredPosition(activeBook'.id), 0,
                                  activeBook'.len - 1) ]_vars

C8_SkipClamps ==
  [][ (op'.name = "skip" /\ Length >= 1)
        => index' = Clamp(index + op'.arg, 0, Length - 1) ]_vars

\* a skip back by the button's step has acted while Paused and clamped the
\* cursor to 0 on a longest document whose position had been moved before
C8_Witness ==
  /\ ReaderOpen
  /\ op = Op("skip", -SkipStep)
  /\ ~isPlaying
  /\ Length = MaxLen
  /\ index = 0
  /\ activeBook.lastPosition > 0

\* C9: every reset step ends with cursor 0 and running false.
C9_ResetYieldsStart ==
  [][ op'.name = "reset" => (index' = 0 /\ ~isPlaying') ]_vars

\* reset has acted in a session that had been played (its timer ref is set)
\* at a changed rate
C9_Witness ==
  /\ ReaderOpen
  /\ op.name = "reset"
  /\ index = 0
  /\ ~isPlaying
  /\ timeoutRef # NoTimer
  /\ wpm = WpmMax
  /\ Length = MaxLen

\* C10 (as claimed): with a document of zero tokens open the session is never
\* Running, no tick is armed, and the cursor stays where it was opened.
C10_EmptyNeverRuns ==
  (ReaderOpen /\ Length = 0) => (~isPlaying /\ timers = {} /\ index = 0)
\* C11: while a document is open, the library entry of that document carries
\* the current cursor: every value the cursor took by tick, skip or reset was
\* handed to onUpdatePosition with the document's id, the current one last.
C11_PositionReported ==
  ReaderOpen => \E b \in books : b.id = activeBook.id /\ b.lastPosition = index

\* a tick has moved the cursor to the last token of a longest document opened
\* at 0, and the library entry (not the snapshot Reader holds) carries it
C11_Witness ==
  /\ ReaderOpen
  /\ op.name = "tick"
  /\ Length = MaxLen
  /\ index = Length - 1
  /\ activeBook.lastPosition = 0
  /\ \E b \in books : b.id = activeBook.id /\ b.lastPosition = Length - 1

\* C12 (as claimed): in every state with a document open, the denominators of
\* the bar ratio (length - 1) and of the percentage (length) are not zero.
C12_NoZeroDenominator ==
  ReaderOpen => (BarDenominator # 0 /\ PercentDenominator # 0)
\* C13 (as claimed): settings.wpm is within [100, 1500] in every state, and
\* so is the rate of every armed tick, whatever rate updateSettings was
\* handed or the load effect found in storage.
C13_RateInRange ==
  /\ (WpmMin <= wpm /\ wpm <= WpmMax)
  /\ \A t \in timers : WpmMin <= t.wpm /\ t.wpm <= WpmMax

\* C20: every tick step leaves exactly one armed tick if the state it yields
\* is Running and none if it is Paused (the tick that auto-stops at the end of
\* the document leaves none); in every step's result a tick is pending only
\* while running.
C20_TickArmsIffRunning ==
  [][ /\ op'.name = "tick" => Cardinality(timers') = (IF isPlaying' THEN 1 ELSE 0)
      /\ timers' # {} => isPlaying' ]_vars

\* the tick on the only token of a one-token document has stopped playback
\* and no tick is left armed
C20_Witness ==
  /\ ReaderOpen
  /\ op.name = "tick"
  /\ Length = 1
  /\ ~isPlaying
  /\ timers = {}
  /\ timeoutRef # NoTimer
\* C14: for every word, prefix + pivot + suffix of getSpritzWord(word) is the
\* word; for a non-empty word the pivot is exactly one character; for the
\* empty (or absent) word all three parts are empty.
C14_SpritzRecomposes ==
  /\ currentSpritz.prefix \o currentSpritz.orp \o currentSpritz.suffix = word
  /\ word # <<>> => Len(currentSpritz.orp) = 1
  /\ word = <<>> => currentSpritz = [prefix |-> <<>>, orp |-> <<>>, suffix |-> <<>>]

\* a three-letter word with distinct neighbours has been split around its
\* second letter
C14_Witness ==
  /\ word = <<"a", "b", "a">>
  /\ currentSpritz = [prefix |-> <<"a">>, orp |-> <<"b">>, suffix |-> <<"a">>]

\* the pivot index the table gives for a word of L characters
TablePivot(L) ==
  IF L = 1 THEN 0 ELSE IF L <= 5 THEN 1 ELSE IF L <= 9 THEN 2
  ELSE IF L <= 13 THEN 3 ELSE 4

\* C15: for every non-empty word of L characters the pivot of getSpritzWord is
\* the character at the 0-based index the table gives (0 for 1, 1 for 2..5,
\* 2 for 6..9, 3 for 10..13, 4 from 14 on), and that index is below L.
C15_PivotTable ==
  word # <<>> =>
    LET i == Len(currentSpritz.prefix)
    IN /\ i = TablePivot(Len(word))
       /\ i < Len(word)
       /\ currentSpritz.orp = <<word[i + 1]>>
       /\ Len(currentSpritz.suffix) = Len(word) - i - 1

\* a word of 14 characters has been split at index 4
C15_Witness ==
  /\ Len(word) = 14
  /\ Len(currentSpritz.prefix) = 4
  /\ Len(currentSpritz.suffix) = 9

\* the maximal runs of non-whitespace characters of t, as <<first, last>>
Runs(t) ==
  {r \in (1..Len(t)) \X (1..Len(t)) :
     /\ r[1] <= r[2]
     /\ \A k \in r[1]..r[2] : t[k] \notin Whitespace
     /\ (r[1] = 1 \/ t[r[1] - 1] \in Whitespace)
     /\ (r[2] = Len(t) \/ t[r[2] + 1] \in Whitespace)}

\* C16: the tokens of a content are exactly its maximal runs of
\* non-whitespace characters, in their order of appearance; none is empty or
\* contains whitespace; an empty or all-whitespace content has no token.
C16_TokensAreRuns ==
  /\ Len(words) = Cardinality(Runs(text))
  /\ \A r \in Runs(text) :
       words[Cardinality({q \in Runs(text) : q[1] <= r[1]})] = SubSeq(text, r[1], r[2])
  /\ \A k \in 1..Len(words) :
       words[k] # <<>> /\ \A j \in 1..Len(words[k]) : words[k][j] \notin Whitespace
  /\ (\A k \in 1..Len(text) : text[k] \in Whitespace) => words = <<>>

\* a content with leading, repeated (mixed) and trailing whitespace has been
\* split into its two words
C16_Witness ==
  /\ text = <<" ", "b", " ", "\n", "a", " ">>
  /\ words = << <<"b">>, <<"a">> >>
\* ---- the assist dialog ----

SummaryResults == {"summaryText", "summaryNothing", "summaryFailed"}
ExplainResults == {"explainText", "explainNothing", "explainFailed"}
AssistSteps == {"summarize", "explain", "dismiss"} \cup SummaryResults \cup ExplainResults

\* C17: a result that arrives while the dialog is closed (the user dismissed
\* it with the call still awaited) leaves the dialog closed.  Violated: the
\* rest of handleExplain sets explanation, and a set explanation renders the
\* dialog.
C17_LateResultIgnored ==
  [][(op'.name \in SummaryResults \cup ExplainResults /\ ~DialogOpen) => ~DialogOpen']_allVars

\* C18: starting a summarize or define call, settling it and dismissing the
\* dialog leave index, isPlaying, settings.wpm, the timer handle and the armed
\* tick as they were, and while the reader is playing a tick stays armed
\* whether or not a call is awaited.
C18_AssistLeavesPlayback ==
  [][ /\ op'.name \in AssistSteps =>
          /\ index' = index
          /\ isPlaying' = isPlaying
          /\ wpm' = wpm
          /\ timeoutRef' = timeoutRef
          /\ timers' = timers
      /\ ((isPlaying' /\ calls' # {}) => (\E t \in timers' : t.id = timeoutRef'))]_allVars

\* a summary arrives during playback, past the first word, with a tick armed
\* and a define call still awaited
C18_Witness ==
  /\ op.name = "summaryText"
  /\ isPlaying
  /\ index > 0
  /\ timers # {}
  /\ \E c \in calls : c.kind = "explain"

\* C19: a summarize call that fails or returns nothing stores a placeholder as
\* the summary, clears isSummarizing, and the dialog, when it is open on the
\* summary, shows that placeholder; a define call that fails or returns
\* nothing opens the dialog on a placeholder; either way the reader stays
\* mounted and index, isPlaying, settings.wpm and the armed tick are as before.
C19_FailureDegrades ==
  [][ /\ op'.name \in {"summaryNothing", "summaryFailed"} =>
          /\ summary' \in {"No summary available.", "Could not generate summary at this time."}
          /\ ~isSummarizing'
          /\ ((showSummary' /\ explanation'.text = "") => DialogText' = summary')
      /\ op'.name \in {"explainNothing", "explainFailed"} =>
          /\ DialogOpen'
          /\ DialogText' \in {"Could not define word.", "Could not explain word."}
      /\ op'.name \in {"summaryNothing", "summaryFailed", "explainNothing", "explainFailed"} =>
          /\ ReaderOpen'
          /\ index' = index
          /\ isPlaying' = isPlaying
          /\ wpm' = wpm
          /\ timers' = timers]_allVars

\* a summarize call has failed during playback and the open dialog shows the
\* placeholder
C19_Witness ==
  /\ op.name = "summaryFailed"
  /\ showSummary
  /\ DialogText = "Could not generate summary at this time."
  /\ ~isSummarizing
  /\ isPlaying
  /\ timers # {}
\* ---- play/pause, skip, the timing law, position notifications ----

\* C21: on a document of at least one token every togglePlay step negates
\* running and leaves the cursor and the rate as they were; when the step
\* yields Running exactly one tick is armed, a new one; when it yields Paused
\* no tick is left armed.
C21_ToggleFlips ==
  [][ (op'.name = "togglePlay" /\ Length >= 1)
        => /\ isPlaying' = ~isPlaying
           /\ index' = index
           /\ wpm' = wpm
           /\ IF isPlaying'
              THEN /\ Cardinality(timers') = 1
                   /\ timers' \cap timers = {}
                   /\ \A t \in timers' : t.id = timeoutRef'
              ELSE timers' = {} ]_allVars

\* togglePlay has resumed a session that had been played and paused before,
\* in the middle of a document, at the slider's top rate
C21_Witness ==
  /\ ReaderOpen
  /\ op.name = "togglePlay"
  /\ isPlaying
  /\ Length = MaxLen
  /\ index = 1
  /\ wpm = WpmMax
  /\ timeoutRef > 1
  /\ Cardinality(timers) = 1

\* C22: a skip step leaves running, the rate, the timer handle and the set of
\* armed ticks as they were (the tick armed before the skip is the one
\* pending after it; while Paused none is armed before or after).
C22_SkipKeepsTick ==
  [][ op'.name = "skip"
        => /\ isPlaying' = isPlaying
           /\ wpm' = wpm
           /\ timers' = timers
           /\ timeoutRef' = timeoutRef
           /\ (~isPlaying => timers' = {}) ]_allVars

\* a skip by one token has moved the cursor while Running and a tick is
\* pending
C22_Witness ==
  /\ ReaderOpen
  /\ op = Op("skip", 1)
  /\ isPlaying
  /\ index = 2
  /\ Cardinality(timers) = 1
  /\ \E b \in books : b.id = activeBook.id /\ b.lastPosition = 2

\* C23: every armed tick carries the interval 60000 / settings.wpm (whole
\* milliseconds) of the rate the session has now; since every step that
\* changes the rate re-arms, this is the rate at the moment the tick was
\* armed, and ticks armed after a rate change use the new rate.
C23_TimingLaw ==
  \A t \in timers : t.wpm = wpm /\ t.delay = MsPerMinute \div wpm

\* a tick has fired after the rate was lowered to the slider minimum and has
\* armed the next one with the interval of that rate
C23_Witness ==
  /\ ReaderOpen
  /\ op.name = "tick"
  /\ isPlaying
  /\ wpm = WpmMin
  /\ \E t \in timers : t.delay = 600

\* C24: the step that delivers a position notification and runs the store
\* update it triggers leaves running, the rate, the cursor, the timer handle
\* and the set of armed ticks as they were.
C24_NotifyKeepsTick ==
  [][ op'.name = "notify"
        => /\ isPlaying' = isPlaying
           /\ wpm' = wpm
           /\ index' = index
           /\ timers' = timers
           /\ timeoutRef' = timeoutRef ]_allVars

\* a notification has been delivered while Running, past the first token,
\* and the tick is still pending
C24_Witness ==
  /\ ReaderOpen
  /\ op.name = "notify"
  /\ isPlaying
  /\ index >= 1
  /\ \E t \in timers : t.id = timeoutRef

\* the steps that deliver (activeBook.id, index) to updateBookPosition
NotifyingSteps == {"notify", "skip", "tick", "reset", "setRate", "select", "resume"}

\* C25: a step that delivers (id, pos) yields a library with the same books,
\* where the book with that id has lastPosition pos (if the step delivered at
\* all) and its other fields as before, and every other book is as before;
\* the stored library is the library.  For an id no book of the library has,
\* updateBookPosition returns the library as it is, whatever pos.
C25_ExactlyMatchingBook ==
  [][ /\ op'.name \in NotifyingSteps
          => /\ \A b \in books : b.id # activeBook'.id => b \in books'
             /\ \A c \in books' : \E b \in books :
                   /\ c.id = b.id
                   /\ c.len = b.len
                   /\ c.id = activeBook'.id => c.lastPosition \in {index', b.lastPosition}
                   /\ c.id # activeBook'.id => c = b
             /\ Cardinality(books') = Cardinality(books)
             /\ storedBooks' = books'
      /\ \A id \in BookIds, pos \in 0..MaxLen :
           (\A b \in books' : b.id # id) => UpdateBookPosition(books', id, pos) = books' ]_allVars

\* a tick has moved the position of the open book while the library holds a
\* second book with its own, different position, and an id is free
C25_Witness ==
  /\ ReaderOpen
  /\ op.name = "tick"
  /\ \E b \in books, c \in books :
       /\ b.id = activeBook.id
       /\ c.id # b.id
       /\ b.lastPosition = index
       /\ index >= 1
       /\ c.lastPosition >= 1
       /\ c.lastPosition # index
  /\ storedBooks = books

\* the position localStorage holds for book `id` after the step
StoredPositionAfter(id) ==
  IF \E b \in storedBooks' : b.id = id
  THEN (CHOOSE b \in storedBooks' : b.id = id).lastPosition
  ELSE 0

\* C26 (as claimed): a step that opens a session (selecting a book, Resume
\* Reading) leaves the position stored for that document as it was.
C26_OpenKeepsPosition ==
  [][ op'.name \in {"select", "resume"}
        => StoredPositionAfter(activeBook'.id) = StoredPosition(activeBook'.id) ]_allVars
\* ---- closing the reader, start-up ----

\* C29: the step that closes the reader leaves no tick armed; from then until
\* a session is opened again no tick is armed, no tick step and no
\* notification step is taken, and the position of every book of the library
\* stays as it is.
C29_CloseCancels ==
  [][ /\ op'.name = "close" => (timers' = {} /\ ~ReaderOpen')
      /\ (~ReaderOpen /\ op'.name \notin {"select", "resume"})
           => /\ timers' = {}
              /\ op'.name \notin {"tick", "notify", "skip", "reset"}
              /\ \A b \in books, c \in books' :
                   c.id = b.id => c.lastPosition = b.lastPosition ]_allVars

\* a running session has just been closed in the middle of a longest
\* document; the library keeps the position it was closed at and no tick is
\* armed
C29_Witness ==
  /\ op = Op("close", 1)
  /\ view = "library"
  /\ activeBook.len = MaxLen
  /\ \E b \in books : b.id = activeBook.id /\ b.lastPosition = 1
  /\ timers = {}

\* C30 (as claimed): the steps of start-up (relaunch, first effects, commit
\* of the loaded state) keep every stored book, with its position, and the
\* stored rate.
C30_StartupKeepsStore ==
  [][ op'.name \in {"restart", "mount", "load"}
        => /\ storedBooks \subseteq storedBooks'
           /\ storedWpm # NoWpm => storedWpm' = storedWpm ]_allVars
\* ---- liveness of one session ----

\* C27 (as claimed): unless the user keeps acting or ticks keep firing, the
\* position notifications come to an end.
C27_NotificationsStop ==
  \/ []<><<UserStep \/ TickStep>>_allVars
  \/ <>[][~NotifyStep]_allVars

Running == ReaderOpen /\ isPlaying /\ Length >= 1
Stopped == ReaderOpen /\ index = Length - 1 /\ ~isPlaying /\ timers = {}

\* C28: unless the user keeps acting, every Running state of a session on a
\* document of at least one token is followed by a state with the cursor on
\* the last token, Paused and no tick armed (armed ticks fire eventually).
C28_PlaybackReachesEnd ==
  \/ []<><<UserStep>>_allVars
  \/ <>[](Running => <>Stopped)

\* ticks have carried a session started at the first token to the end of a
\* longest document and stopped it there, at the slider's lowest rate
C28_Witness ==
  /\ op.name = "tick"
  /\ Stopped
  /\ Length = MaxLen
  /\ activeBook.lastPosition = 0
  /\ wpm = WpmMin
  /\ cycle
\* ---- overlapping define requests ----

\* C31 (as claimed): once no define call is awaited any more, a definition on
\* display is the answer to the request issued last.
C31_LatestRequestWins ==
  ((\A c \in calls : c.kind # "explain") /\ explanation.req # 0)
    => explanation.req = issued
\* ---- remote downloads ----

\* C32 (as claimed): at most one handleDownload call is awaited at a time.
C32_OneDownloadInFlight == Cardinality(downloads) <= 1

\* the second half of C32, which holds: a download that fails, and an Import
\* on a book without a usable format, add no book to the library or to
\* storage and leave the explorer mounted or not as it was; if the explorer
\* that made the call is still mounted its downloadingId is null afterwards.
FailedDownloadLeavesLibrary ==
  [][ op'.name \in {"downloadFailed", "noFormat"}
        => /\ books' = books
           /\ storedBooks' = storedBooks
           /\ isExploring' = isExploring
           /\ (op'.name = "noFormat" \/ (isExploring /\ op'.arg = opened))
                => (isExploring' /\ downloadingId' = NoDownload) ]_allVars

\* a download has failed in the explorer that started it, with a book
\* already in the library; the explorer is open and Import is enabled again
FailedDownloadSeen ==
  /\ op = Op("downloadFailed", opened)
  /\ isExploring
  /\ downloadingId = NoDownload
  /\ books # {}
====
